---- MODULE Spec2Model ----
(***************************************************************************)
(* Model of the GitHub webhook filter server.                              *)
(*                                                                         *)
(* The repository holds two "package main" programs:                       *)
(*   src/unnamed/part_000                  (probe branch, 204 on filter)   *)
(*   src/github_webhook_filter_server.go   (no probe branch, 400 on filter)*)
(* The variable `build` says which of the two is the running server.       *)
(* Definitions with the suffix _server model the second file; the others   *)
(* model the first (helpers that are textually identical in both files are *)
(* modelled once).                                                         *)
(*                                                                         *)
(* A request body is a sequence of JSON lexical tokens; strings that the   *)
(* code builds with fmt.Sprintf are tuples of their pieces; the signature  *)
(* header is a sequence of characters.                                     *)
(***************************************************************************)
EXTENDS Integers, Sequences, FiniteSets, TLC

VARIABLES
    build,          \* which main package is running
    webhookSecret,  \* package variable, set by init()
    relayURL,       \* package variable, set by init()
    pc,             \* per connection: position of the handler goroutine
    request,        \* per connection: the inbound *http.Request
    requestBody,    \* local of handleRequest
    event,          \* local of handleRequest (PackageEvent)
    unmarshalErr,   \* local of handleRequest (err of json.Unmarshal)
    newRequest,     \* local of handleRequest (outbound *http.Request)
    httpResponse,   \* local of handleRequest (*http.Response of client.Do)
    err,            \* local of handleRequest (error of client.Do)
    used,           \* per connection: the bytes handed to the HMAC and to the JSON decoder
    w,              \* per connection: the http.ResponseWriter
    steps,          \* per connection: operations performed so far, in order
    relay,          \* requests handed to the transport for the relay, in order
    conn,           \* per connection: what the caller has received
    served,         \* number of requests accepted since the server started
    ctx             \* per connection: the inbound request's Context()

vars == <<build, webhookSecret, relayURL, pc, request, requestBody, event,
          unmarshalErr, newRequest, httpResponse, err, used, w, steps, relay, conn,
          served, ctx>>

-----------------------------------------------------------------------------
(* Strings as character sequences, hex encoding.                           *)

HexDigits == <<"0","1","2","3","4","5","6","7","8","9","a","b","c","d","e","f">>

\* hex.EncodeToString of one byte
HexByte(b) == <<HexDigits[(b \div 16) + 1], HexDigits[(b % 16) + 1]>>

RECURSIVE EncodeToString(_)
EncodeToString(bytes) ==
    IF bytes = <<>> THEN <<>>
    ELSE HexByte(Head(bytes)) \o EncodeToString(Tail(bytes))

SigPrefix == <<"s","h","a","2","5","6","=">>

-----------------------------------------------------------------------------
(* JSON tokens.                                                            *)

Tok(k, v) == [k |-> k, v |-> v]
LBrace == Tok("punct", "{")
RBrace == Tok("punct", "}")
Colon  == Tok("punct", ":")
Comma  == Tok("punct", ",")
Str(s) == Tok("str", s)
Num    == Tok("num", "1")
NullTok == Tok("lit", "null")

\* every token that occurs in a modelled body, in a fixed order (its
\* position stands for its byte content when the body is hashed)
TokenList ==
    << LBrace, RBrace, Colon, Comma, Num, NullTok,
       Str("package"), Str("package_type"), Str("CONTAINER"), Str("MAVEN"),
       Str("Package"), Str("PACKAGE_TYPE"), Str("action"), Str("published") >>

Code(tok) == CHOOSE i \in 1..Len(TokenList) : TokenList[i] = tok

Codes(toks) == [i \in 1..Len(toks) |-> Code(toks[i])]

-----------------------------------------------------------------------------
(* crypto/hmac with sha256, as a small keyed hash.  SHA-256 is modelled by *)
(* a 16-bit polynomial hash; HMAC keeps its two nested keyed passes.  The  *)
(* digest is two bytes instead of thirty-two.                              *)

HashMod == 256 * 256

RECURSIVE Sum(_, _)
\* sha256.Sum of the byte sequence xs, started from state h
Sum(h, xs) ==
    IF xs = <<>> THEN h
    ELSE Sum((h * 131 + Head(xs) + 7) % HashMod, Tail(xs))

\* key XOR pad, as hmac.New prepares the inner and the outer key block
KeyBlock(key, pad) == [i \in 1..Len(key) |-> (key[i] + pad) % 256]

\* mac := hmac.New(sha256.New, key); mac.Write(msg); mac.Sum(nil)
HMACSum(key, msg) ==
    LET inner == Sum(Sum(0, KeyBlock(key, 54)), msg)
        outer == Sum(Sum(0, KeyBlock(key, 92)), <<inner \div 256, inner % 256>>)
    IN  <<outer \div 256, outer % 256>>

RECURSIVE ConstantTimeByteDiff(_, _)
\* the OR of the XOR of all byte pairs: every position is visited
ConstantTimeByteDiff(x, y) ==
    IF x = <<>> THEN 0
    ELSE LET rest == ConstantTimeByteDiff(Tail(x), Tail(y))
         IN  IF Head(x) # Head(y) THEN 1 ELSE rest

\* hmac.Equal comparing the lengths only
hmacEqual_LengthOnly(a, b) == Len(a) = Len(b)

\* hmac.Equal(a, b): subtle.ConstantTimeCompare(a, b) == 1
hmacEqual(a, b) ==
    IF Len(a) # Len(b) THEN FALSE
    ELSE ConstantTimeByteDiff(a, b) = 0

\* the hex digest alone, the "sha256=" tag left out
Calculated_NoTag(key, body) == EncodeToString(HMACSum(key, Codes(body)))

\* "sha256=" + hex.EncodeToString(mac.Sum(nil)) for a key and a body
Calculated(key, body) == SigPrefix \o EncodeToString(HMACSum(key, Codes(body)))

\* verifySignature letting a request without the header through
verifySignature_SkipAbsent(secret, headerSignature, requestBodyToHash) ==
    \/ headerSignature = <<>>
    \/ hmacEqual(Calculated(secret, requestBodyToHash), headerSignature)

verifySignature(secret, headerSignature, requestBodyToHash) ==
    hmacEqual(Calculated(secret, requestBodyToHash), headerSignature)

-----------------------------------------------------------------------------
(* encoding/json: Unmarshal into PackageEvent.                             *)

\* parsed JSON values
JNull    == [t |-> "null", s |-> "", m |-> <<>>]
JNum     == [t |-> "num",  s |-> "", m |-> <<>>]
JStr(s)  == [t |-> "str",  s |-> s,  m |-> <<>>]
JObj(ms) == [t |-> "obj",  s |-> "", m |-> ms]

ParseFail      == [ok |-> FALSE, next |-> 0, val |-> JNull]
ParseOK(n, v)  == [ok |-> TRUE,  next |-> n, val |-> v]

RECURSIVE ParseValue(_, _), ParseMembers(_, _, _)
\* one JSON value starting at token i
ParseValue(toks, i) ==
    IF i > Len(toks) THEN ParseFail
    ELSE LET tk == toks[i] IN
         CASE tk.k = "str" -> ParseOK(i + 1, JStr(tk.v))
           [] tk.k = "num" -> ParseOK(i + 1, JNum)
           [] tk.k = "lit" -> ParseOK(i + 1, JNull)
           [] tk = LBrace ->
                IF i + 1 <= Len(toks) /\ toks[i + 1] = RBrace
                THEN ParseOK(i + 2, JObj(<<>>))
                ELSE ParseMembers(toks, i + 1, <<>>)
           [] OTHER -> ParseFail

\* the members of an object from token i on, up to and including its "}"
ParseMembers(toks, i, acc) ==
    IF i + 1 > Len(toks) THEN ParseFail
    ELSE IF toks[i].k # "str" \/ toks[i + 1] # Colon THEN ParseFail
    ELSE LET v == ParseValue(toks, i + 2) IN
         IF ~v.ok \/ v.next > Len(toks) THEN ParseFail
         ELSE LET acc2 == Append(acc, [key |-> toks[i].v, val |-> v.val]) IN
              IF toks[v.next] = RBrace THEN ParseOK(v.next + 1, JObj(acc2))
              ELSE IF toks[v.next] = Comma THEN ParseMembers(toks, v.next + 1, acc2)
              ELSE ParseFail

\* json.checkValid: exactly one value and nothing after it
checkValid(toks) ==
    LET p == ParseValue(toks, 1) IN p.ok /\ p.next = Len(toks) + 1

\* keys match a struct field's name without regard to case
FoldKey(key) ==
    CASE key \in {"package", "Package"} -> "package"
      [] key \in {"package_type", "PACKAGE_TYPE"} -> "package_type"
      [] OTHER -> key

\* type PackageEvent struct { Package struct { PackageType string } }
ZeroEvent == [Package |-> [PackageType |-> ""]]

Decoded(ev, e) == [event |-> ev, err |-> e]

RECURSIVE DecodePackage(_, _), DecodeEvent(_, _)
\* the members of the "package" object into event.Package, in order
DecodePackage(ms, d) ==
    IF ms = <<>> THEN d
    ELSE LET mem == Head(ms)
             d2 == IF FoldKey(mem.key) # "package_type" THEN d
                   ELSE IF mem.val.t = "str"
                        THEN Decoded([Package |-> [PackageType |-> mem.val.s]], d.err)
                   ELSE IF mem.val.t = "null" THEN d
                   ELSE Decoded(d.event, IF d.err = "" THEN "UnmarshalTypeError" ELSE d.err)
         IN  DecodePackage(Tail(ms), d2)

\* the members of the top-level object into event, in order
DecodeEvent(ms, d) ==
    IF ms = <<>> THEN d
    ELSE LET mem == Head(ms)
             d2 == IF FoldKey(mem.key) # "package" THEN d
                   ELSE IF mem.val.t = "obj" THEN DecodePackage(mem.val.m, d)
                   ELSE IF mem.val.t = "null" THEN d
                   ELSE Decoded(d.event, IF d.err = "" THEN "UnmarshalTypeError" ELSE d.err)
         IN  DecodeEvent(Tail(ms), d2)

\* json.Unmarshal(data, &event) with event the zero PackageEvent
Unmarshal(data) ==
    IF ~checkValid(data) THEN Decoded(ZeroEvent, "SyntaxError")
    ELSE LET v == ParseValue(data, 1).val IN
         CASE v.t = "obj"  -> DecodeEvent(v.m, Decoded(ZeroEvent, ""))
           [] v.t = "null" -> Decoded(ZeroEvent, "")
           [] OTHER -> Decoded(ZeroEvent, "UnmarshalTypeError")

-----------------------------------------------------------------------------
(* net/http: the ResponseWriter the server hands to a handler.             *)

\* a fresh response: nothing written
NewResponse ==
    [wroteHeader |-> FALSE, status |-> 0,
     header |-> [Message |-> <<>>],   \* the live Header() map
     sent   |-> [Message |-> <<>>],   \* the headers frozen by WriteHeader
     body   |-> <<>>,                 \* the chunks written, in order
     calls  |-> <<>>]                 \* every status write asked for, in order

StatusCall(op, code, rw) == [op |-> op, code |-> code, superfluous |-> rw.wroteHeader]

\* response.WriteHeader on behalf of `op`: the first call wins, a later
\* one is logged as superfluous and changes nothing
writeHeader(rw, code, op) ==
    IF rw.wroteHeader
    THEN [rw EXCEPT !.calls = Append(@, StatusCall(op, code, rw))]
    ELSE [rw EXCEPT !.wroteHeader = TRUE, !.status = code, !.sent = rw.header,
                    !.calls = Append(@, StatusCall(op, code, rw))]

WriteHeader(rw, code) == writeHeader(rw, code, "WriteHeader")

bodyAllowedForStatus(status) ==
    ~((status >= 100 /\ status <= 199) \/ status = 204 \/ status = 304)

\* response.Write: commits status 200 when no status was written yet
Write(rw, data) ==
    LET rw1 == IF rw.wroteHeader THEN rw ELSE writeHeader(rw, 200, "Write")
    IN  IF bodyAllowedForStatus(rw1.status)
        THEN [rw1 EXCEPT !.body = Append(@, data)]
        ELSE rw1

\* http.Error(w, msg, code)
Error(rw, msg, code) == Write(writeHeader(rw, code, "Error"), msg)

\* Header().Add("Message", v)
HeaderAddMessage(rw, v) == [rw EXCEPT !.header.Message = Append(@, v)]

\* what the caller receives when the handler returns: conn.serve calls
\* finishRequest, which flushes the buffered response
Responded(rw, method) ==
    [state   |-> "responded",
     status  |-> IF rw.wroteHeader THEN rw.status ELSE 200,
     body    |-> IF method = "HEAD" THEN <<>> ELSE rw.body,
     Message |-> rw.sent.Message]

\* what the caller receives when the handler panics: conn.serve recovers,
\* logs and closes the connection; the response, still in the response's
\* own buffer, is never flushed
Aborted == [state |-> "aborted", status |-> 0, body |-> <<>>, Message |-> <<>>]

NoConn == [state |-> "idle", status |-> 0, body |-> <<>>, Message |-> <<>>]
Open   == [state |-> "open", status |-> 0, body |-> <<>>, Message |-> <<>>]

-----------------------------------------------------------------------------
(* Inputs.                                                                 *)

\* requests the server accepts in one run of the model
MaxRequests == 2

Conns  == {1, 2}      \* connections the server can hold
Serial == {1}         \* the connection served when requests come one by one

Builds == {"part_000", "github_webhook_filter_server.go"}

\* GITHUB_WEBHOOK_SECRET values (byte strings "k1", "k2"); init() refuses ""
Secrets == {<<107, 49>>, <<107, 50>>}

\* WEBHOOKRELAY_URL values; init() refuses "" and checks nothing else
RelayURLs == {"https://relay.example/hook", "://relay"}

\* url.Parse, which http.NewRequestWithContext applies to the URL
URLParses(url) == url # "://relay"

Paths   == {"/", "/health"}
Methods == {"GET", "HEAD", "POST"}
DeliveryIds == {"", "abc"}
EventTypes  == {"", "package"}

BodyOf(packageKey, typeKey, value) ==
    <<LBrace, Str(packageKey), Colon, LBrace, Str(typeKey), Colon, value, RBrace, RBrace>>

ContainerBody == BodyOf("package", "package_type", Str("CONTAINER"))
MavenBody     == BodyOf("package", "package_type", Str("MAVEN"))

Bodies ==
    { ContainerBody,
      MavenBody,
      BodyOf("package", "package_type", Num),
      BodyOf("Package", "PACKAGE_TYPE", Str("CONTAINER")),
      <<LBrace, Str("action"), Colon, Str("published"), Comma>> \o Tail(ContainerBody),
      <<LBrace, RBrace>>,
      <<NullTok>>,
      <<LBrace, Str("package"), Colon, Str("CONTAINER"), RBrace>>,
      ContainerBody \o <<RBrace>>,
      <<>> }

OtherSecret(secret) == CHOOSE s \in Secrets : s # secret

\* a signature with its last hex digit changed
OneDigitOff(sig) ==
    SubSeq(sig, 1, Len(sig) - 1) \o <<IF sig[Len(sig)] = "0" THEN "1" ELSE "0">>

\* the X-Hub-Signature-256 values tried for a body: absent, right, right
\* for the empty body, made with another key, right for another body,
\* without the tag, one character short, one digit changed
Signatures(secret, body) ==
    { <<>>,
      Calculated(secret, body),
      Calculated(secret, <<>>),
      Calculated(OtherSecret(secret), body),
      Calculated(secret, MavenBody),
      EncodeToString(HMACSum(secret, Codes(body))),
      SubSeq(Calculated(secret, body), 1, Len(Calculated(secret, body)) - 1),
      OneDigitOff(Calculated(secret, body)) }

\* status codes a relay answers with
RelayStatuses == {200, 204, 299, 300, 404, 500}

NilResponse == [nil |-> TRUE, StatusCode |-> 0, closed |-> FALSE]
Response(code, closed) == [nil |-> FALSE, StatusCode |-> code, closed |-> closed]

NilRequest == [nil |-> TRUE, ctx |-> "", method |-> "", url |-> "", body |-> <<>>,
               userAgent |-> "", contentType |-> ""]

NoRequest == [path |-> "", method |-> "", delivery |-> "", event |-> "",
              signature |-> <<>>, body |-> <<>>]

-----------------------------------------------------------------------------
(* The server.                                                             *)

\* init(): both package variables are read from the environment once
Init ==
    /\ build \in Builds
    /\ webhookSecret \in Secrets
    /\ relayURL \in RelayURLs
    /\ pc = [r \in Conns |-> "idle"]
    /\ request = [r \in Conns |-> NoRequest]
    /\ requestBody = [r \in Conns |-> <<>>]
    /\ event = [r \in Conns |-> ZeroEvent]
    /\ unmarshalErr = [r \in Conns |-> ""]
    /\ newRequest = [r \in Conns |-> NilRequest]
    /\ httpResponse = [r \in Conns |-> NilResponse]
    /\ err = [r \in Conns |-> ""]
    /\ used = [r \in Conns |-> [hashed |-> <<>>, parsed |-> <<>>]]
    /\ w = [r \in Conns |-> NewResponse]
    /\ steps = [r \in Conns |-> <<>>]
    /\ relay = <<>>
    /\ conn = [r \in Conns |-> NoConn]
    /\ served = 0
    /\ ctx = [r \in Conns |-> "none"]

config == <<build, webhookSecret, relayURL, served>>
locals == <<requestBody, event, unmarshalErr, newRequest, httpResponse, err, used>>

\* a handler that leaves its response in every connection's writer
Return_SharedWriter(r, rw, did) ==
    /\ pc' = [pc EXCEPT ![r] = "done"]
    /\ w' = [q \in Conns |-> rw]
    /\ steps' = [steps EXCEPT ![r] = @ \o did]
    /\ conn' = [conn EXCEPT ![r] = Responded(rw, request[r].method)]

\* the handler goroutine of connection r ends: normally (the response is
\* flushed to the caller) or by a panic (the connection is dropped)
Return(r, rw, did) ==
    /\ pc' = [pc EXCEPT ![r] = "done"]
    /\ w' = [w EXCEPT ![r] = rw]
    /\ steps' = [steps EXCEPT ![r] = @ \o did]
    /\ conn' = [conn EXCEPT ![r] = Responded(rw, request[r].method)]

Panic(r, rw, did) ==
    /\ pc' = [pc EXCEPT ![r] = "panic"]
    /\ w' = [w EXCEPT ![r] = rw]
    /\ steps' = [steps EXCEPT ![r] = @ \o did]
    /\ conn' = [conn EXCEPT ![r] = Aborted]

\* a mux on which only "/" is registered
Route_RootOnly(path) ==
    IF build = "part_000" THEN "handler" ELSE "handler_server"

\* the mux pattern a path is served by: "/health" exactly, "/" otherwise
Route(path) ==
    IF path = "/health" THEN "health"
    ELSE IF build = "part_000" THEN "handler" ELSE "handler_server"

\* http.ListenAndServe accepts a request on the idle connection r and
\* starts the goroutine that runs the mux
Accept(r) ==
    /\ pc[r] = "idle"
    /\ served < MaxRequests
    /\ served' = served + 1
    /\ \E p \in Paths, m \in Methods, d \in DeliveryIds, e \in EventTypes, b \in Bodies :
         \E s \in Signatures(webhookSecret, b) :
            /\ request' = [request EXCEPT ![r] =
                   [path |-> p, method |-> m, delivery |-> d, event |-> e,
                    signature |-> s, body |-> b]]
            /\ pc' = [pc EXCEPT ![r] = Route(p)]
    /\ conn' = [conn EXCEPT ![r] = Open]
    /\ ctx' = [ctx EXCEPT ![r] = "active"]
    /\ UNCHANGED <<build, webhookSecret, relayURL, locals, w, steps, relay>>

\* the server is done with the request of connection r: the request, the
\* handler's locals and the ResponseWriter are dropped, and the connection
\* (or, after a panic, a new one) waits for the next request
serveNext(r) ==
    /\ pc[r] \in {"done", "panic"}
    /\ pc' = [pc EXCEPT ![r] = "idle"]
    /\ request' = [request EXCEPT ![r] = NoRequest]
    /\ conn' = [conn EXCEPT ![r] = NoConn]
    /\ requestBody' = [requestBody EXCEPT ![r] = <<>>]
    /\ event' = [event EXCEPT ![r] = ZeroEvent]
    /\ unmarshalErr' = [unmarshalErr EXCEPT ![r] = ""]
    /\ newRequest' = [newRequest EXCEPT ![r] = NilRequest]
    /\ httpResponse' = [httpResponse EXCEPT ![r] = NilResponse]
    /\ err' = [err EXCEPT ![r] = ""]
    /\ used' = [used EXCEPT ![r] = [hashed |-> <<>>, parsed |-> <<>>]]
    /\ w' = [w EXCEPT ![r] = NewResponse]
    /\ steps' = [steps EXCEPT ![r] = <<>>]
    /\ ctx' = [ctx EXCEPT ![r] = "none"]
    /\ UNCHANGED <<config, relay>>

\* main's func literal for "/health"
health(r) ==
    /\ pc[r] = "health"
    /\ Return(r, Write(WriteHeader(w[r], 200), <<"OK">>), <<"health">>)
    /\ UNCHANGED <<config, locals, request, relay, ctx>>

\* logRequest refusing only a request that lacks both headers
logRequest_BothMissing(headers) ==
    IF headers.delivery = "" /\ headers.event = ""
    THEN <<"Either missing requestId: (", headers.delivery, ") or eventType: (",
           headers.event, ") and will not process request further">>
    ELSE <<>>

\* logRequest: the error line, or the empty string
logRequest(headers) ==
    IF headers.delivery = "" \/ headers.event = ""
    THEN <<"Either missing requestId: (", headers.delivery, ") or eventType: (",
           headers.event, ") and will not process request further">>
    ELSE <<>>

\* respondError: log the message and http.Error it
respondError(rw, msg, code) == Error(rw, msg, code)

\* handleHeadAndGet: log the headers, answer 200
handleHeadAndGet(rw) == WriteHeader(rw, 200)

\* the method test taking GET alone for a probe
IsProbe_GetOnly(method) == method = "GET"

\* request.Method == "HEAD" || request.Method == "GET"
IsProbe(method) == method = "HEAD" \/ method = "GET"

\* handler of part_000, up to its call of handleRequest
handler(r) ==
    /\ pc[r] = "handler"
    /\ IF IsProbe(request[r].method)
       THEN Return(r, handleHeadAndGet(w[r]), <<"handleHeadAndGet">>)
       ELSE IF logRequest(request[r]) # <<>>
       THEN Return(r, respondError(w[r], logRequest(request[r]), 400),
                   <<"logRequest", "respondError">>)
       ELSE /\ pc' = [pc EXCEPT ![r] = "handleRequest"]
            /\ steps' = [steps EXCEPT ![r] = @ \o <<"logRequest">>]
            /\ UNCHANGED <<w, conn>>
    /\ UNCHANGED <<config, locals, request, relay, ctx>>

\* handler of github_webhook_filter_server.go, up to its call of
\* handleRequest: there is no method branch
handler_server(r) ==
    /\ pc[r] = "handler_server"
    /\ IF logRequest(request[r]) # <<>>
       THEN Return(r, respondError(w[r], logRequest(request[r]), 400),
                   <<"logRequest", "respondError">>)
       ELSE /\ pc' = [pc EXCEPT ![r] = "handleRequest_server"]
            /\ steps' = [steps EXCEPT ![r] = @ \o <<"logRequest">>]
            /\ UNCHANGED <<w, conn>>
    /\ UNCHANGED <<config, locals, request, relay, ctx>>

\* readRequest: io.ReadAll gives the n bytes it could read; an error (fewer
\* than all of them) is logged and the bytes read are returned
readRequest(body, n) == SubSeq(body, 1, n)

\* the outbound request built from the re-encoded event instead of the body
NewRequestWithContext_Remarshal(url, body) ==
    IF URLParses(url)
    THEN [nil |-> FALSE, ctx |-> "request.Context()", method |-> "POST", url |-> url,
          body |-> BodyOf("package", "package_type", Str(Unmarshal(body).event.Package.PackageType)),
          userAgent |-> "Go WebHook Filter", contentType |-> "application/json"]
    ELSE NilRequest

\* the outbound request bound to no context of the inbound request
NewRequestWithContext_Background(url, body) ==
    IF URLParses(url)
    THEN [nil |-> FALSE, ctx |-> "context.Background()", method |-> "POST", url |-> url,
          body |-> body,
          userAgent |-> "Go WebHook Filter", contentType |-> "application/json"]
    ELSE NilRequest

\* http.NewRequestWithContext(request.Context(), "POST", url,
\* strings.NewReader(string(body))) and the two Header.Set calls
NewRequestWithContext(url, body) ==
    IF URLParses(url)
    THEN [nil |-> FALSE, ctx |-> "request.Context()", method |-> "POST", url |-> url,
          body |-> body,
          userAgent |-> "Go WebHook Filter", contentType |-> "application/json"]
    ELSE NilRequest

\* the filter adding the Message header after the status is written
Filtered_HeaderAfterStatus(rw, packageType) ==
    HeaderAddMessage(WriteHeader(rw, 204),
        <<"Filtered out package_type ", packageType, "! No forward to relay">>)

\* the filter of part_000: Message header and 204
Filtered(rw, packageType) ==
    WriteHeader(HeaderAddMessage(rw,
        <<"Filtered out package_type ", packageType, "! No forward to relay">>), 204)

\* the filter of github_webhook_filter_server.go: respondError with 400
Filtered_server(rw, packageType) ==
    respondError(rw, <<"Filtered out package_type ", packageType, "! No forward to relay">>, 400)

\* the error test taking a syntax error alone for a failure
UnmarshalFailed_SyntaxOnly(d) == d.err = "SyntaxError"

\* `if err := json.Unmarshal(requestBody, &event); err != nil`
UnmarshalFailed(d) == d.err # ""

\* handleRequest from json.Unmarshal to the client.Do call: d is the result
\* of Unmarshal, out the outbound request
handleRequestVerified(r, file, d, out) ==
    IF UnmarshalFailed(d)
    THEN /\ event' = [event EXCEPT ![r] = d.event]
         /\ unmarshalErr' = [unmarshalErr EXCEPT ![r] = d.err]
         /\ Return(r, respondError(w[r], <<"Failed to parse JSON: ", d.err>>, 400),
                   <<"readRequest", "verifySignature", "Unmarshal", "respondError">>)
         /\ UNCHANGED newRequest
    ELSE IF d.event.Package.PackageType # "CONTAINER"
    THEN /\ event' = [event EXCEPT ![r] = d.event]
         /\ Return(r, IF file = "part_000"
                      THEN Filtered(w[r], d.event.Package.PackageType)
                      ELSE Filtered_server(w[r], d.event.Package.PackageType),
                   <<"readRequest", "verifySignature", "Unmarshal", "filtered">>)
         /\ UNCHANGED <<unmarshalErr, newRequest>>
    ELSE /\ event' = [event EXCEPT ![r] = d.event]
         /\ newRequest' = [newRequest EXCEPT ![r] = out]
         /\ UNCHANGED unmarshalErr
         /\ IF out.nil
            THEN Panic(r, w[r], <<"readRequest", "verifySignature", "Unmarshal",
                                  "NewRequestWithContext", "nil dereference">>)
            ELSE /\ pc' = [pc EXCEPT ![r] = "client.Do"]
                 /\ steps' = [steps EXCEPT ![r] = @ \o
                        <<"readRequest", "verifySignature", "Unmarshal",
                          "NewRequestWithContext">>]
                 /\ UNCHANGED <<w, conn>>

\* handleRequest from its first line to json.Unmarshal; the two files
\* differ only in the answer to a package type that is not CONTAINER
\* (handleRequestVerified)
handleRequestHead(r, file) ==
    \E n \in 0..Len(request[r].body) :
       LET body == readRequest(request[r].body, n)
           d == Unmarshal(body)
           out == NewRequestWithContext(relayURL, body)
       IN  /\ requestBody' = [requestBody EXCEPT ![r] = body]
           /\ IF ~verifySignature(webhookSecret, request[r].signature, body)
              THEN /\ Return(r, respondError(w[r], <<"Invalid Signature">>, 401),
                             <<"readRequest", "verifySignature", "respondError">>)
                   /\ used' = [used EXCEPT ![r].hashed = body]
                   /\ UNCHANGED <<event, unmarshalErr, newRequest>>
              ELSE /\ used' = [used EXCEPT ![r] = [hashed |-> body, parsed |-> body]]
                   /\ handleRequestVerified(r, file, d, out)

handleRequest(r) ==
    /\ pc[r] = "handleRequest"
    /\ handleRequestHead(r, "part_000")
    /\ UNCHANGED <<config, request, httpResponse, err, relay, ctx>>

handleRequest_server(r) ==
    /\ pc[r] = "handleRequest_server"
    /\ handleRequestHead(r, "github_webhook_filter_server.go")
    /\ UNCHANGED <<config, request, httpResponse, err, relay, ctx>>

\* the caller of connection r goes away while its handler runs: the
\* server cancels the inbound request's context
cancel(r) ==
    /\ pc[r] \notin {"idle", "done", "panic"}
    /\ ctx[r] = "active"
    /\ ctx' = [ctx EXCEPT ![r] = "canceled"]
    /\ UNCHANGED <<config, locals, request, relay, pc, w, steps, conn>>

\* the context the transport watches during client.Do(req) is done
ContextDone(r, req) == req.ctx = "request.Context()" /\ ctx[r] = "canceled"

\* client.Do(newRequest): the one blocking call, made on the handler's own
\* goroutine.  The transport gives a response and no error; or no response
\* and an error (the request may or may not have reached the relay); or,
\* when the relay redirects more than ten times, the last redirect
\* response, its body already closed, together with an error.  Once the
\* request's context is done the transport abandons the round trip and
\* the call returns no response and the context's error
clientDo(r) ==
    /\ pc[r] = "client.Do"
    /\ IF ContextDone(r, newRequest[r])
       THEN \E reached \in BOOLEAN :
            /\ httpResponse' = [httpResponse EXCEPT ![r] = NilResponse]
            /\ err' = [err EXCEPT ![r] = "context canceled"]
            /\ relay' = IF reached THEN Append(relay, newRequest[r]) ELSE relay
       ELSE \/ \E code \in RelayStatuses :
                 /\ httpResponse' = [httpResponse EXCEPT ![r] = Response(code, FALSE)]
                 /\ err' = [err EXCEPT ![r] = ""]
                 /\ relay' = Append(relay, newRequest[r])
            \/ \E reached \in BOOLEAN :
                 /\ httpResponse' = [httpResponse EXCEPT ![r] = NilResponse]
                 /\ err' = [err EXCEPT ![r] = "transport error"]
                 /\ relay' = IF reached THEN Append(relay, newRequest[r]) ELSE relay
            \/ /\ httpResponse' = [httpResponse EXCEPT ![r] = Response(307, TRUE)]
               /\ err' = [err EXCEPT ![r] = "stopped after 10 redirects"]
               /\ relay' = Append(relay, newRequest[r])
    /\ pc' = [pc EXCEPT ![r] = IF build = "part_000" THEN "relayed" ELSE "relayed_server"]
    /\ steps' = [steps EXCEPT ![r] = Append(@, "client.Do")]
    /\ UNCHANGED <<config, request, requestBody, event, unmarshalErr, newRequest, used, w, conn, ctx>>

ConfirmationBody ==
    <<"package_type:CONTAINER passed the filter on Github Webhook Filter server hosted at onrender.com. Forwarded to relay.">>

\* the response after the `if err != nil` block, which does not return
AfterDoError(rw, e) ==
    IF e # "" THEN respondError(rw, <<"Error sending request: ", e>>, 502) ELSE rw

\* the status check with its lower limit off by one
AfterStatusCheck_OffByOne(rw, statusCode) ==
    IF statusCode <= 200 \/ statusCode >= 300
    THEN Error(rw, <<"Error - Relay returned status: ", statusCode>>, 502)
    ELSE rw

\* the response after the status check, which does not return
AfterStatusCheck(rw, statusCode) ==
    IF statusCode < 200 \/ statusCode >= 300
    THEN Error(rw, <<"Error - Relay returned status: ", statusCode>>, 502)
    ELSE rw

\* the last two writes of part_000: the confirmation body, then status 200
Confirm(rw) == WriteHeader(Write(rw, ConfirmationBody), 200)

\* the last write of github_webhook_filter_server.go: status 200
Confirm_server(rw) == WriteHeader(rw, 200)

\* the steps the code takes after client.Do has returned
StepsAfterDo(e, statusCode) ==
    (IF e # "" THEN <<"respondError">> ELSE <<>>)
    \o <<"defer httpResponse.Body.Close", "httpResponse.StatusCode">>
    \o (IF statusCode < 200 \/ statusCode >= 300 THEN <<"http.Error">> ELSE <<>>)

\* the body closed only when the relay answered in [200,300)
BodyClose_OnSuccessOnly(resp) ==
    IF resp.StatusCode >= 200 /\ resp.StatusCode < 300
    THEN [resp EXCEPT !.closed = TRUE]
    ELSE resp

\* the deferred httpResponse.Body.Close(), run when handleRequest returns
BodyClose(resp) == [resp EXCEPT !.closed = TRUE]

\* handleRequest from the return of client.Do to its end.  `defer
\* httpResponse.Body.Close()` evaluates httpResponse.Body when the defer
\* statement runs: with a nil httpResponse that is a nil dereference
handleRequestTail(r, file) ==
    LET rw1 == AfterDoError(w[r], err[r])
        code == httpResponse[r].StatusCode
        rw2 == AfterStatusCheck(rw1, code)
    IN  IF httpResponse[r].nil
        THEN /\ Panic(r, rw1, (IF err[r] # "" THEN <<"respondError">> ELSE <<>>)
                              \o <<"httpResponse.Body", "nil dereference">>)
             /\ UNCHANGED httpResponse
        ELSE /\ Return(r, IF file = "part_000" THEN Confirm(rw2) ELSE Confirm_server(rw2),
                        StepsAfterDo(err[r], code)
                        \o (IF file = "part_000" THEN <<"Write", "WriteHeader">>
                                                 ELSE <<"WriteHeader">>)
                        \o <<"httpResponse.Body.Close">>)
             /\ httpResponse' = [httpResponse EXCEPT ![r] = BodyClose(@)]

relayed(r) ==
    /\ pc[r] = "relayed"
    /\ handleRequestTail(r, "part_000")
    /\ UNCHANGED <<config, request, requestBody, event, unmarshalErr, newRequest, err, used, relay, ctx>>

relayed_server(r) ==
    /\ pc[r] = "relayed_server"
    /\ handleRequestTail(r, "github_webhook_filter_server.go")
    /\ UNCHANGED <<config, request, requestBody, event, unmarshalErr, newRequest, err, used, relay, ctx>>

-----------------------------------------------------------------------------
(* Requests served one at a time.                                          *)

Next ==
    \E r \in Serial :
        \/ Accept(r)
        \/ serveNext(r)
        \/ health(r)
        \/ handler(r)
        \/ handler_server(r)
        \/ handleRequest(r)
        \/ handleRequest_server(r)
        \/ cancel(r)
        \/ clientDo(r)
        \/ relayed(r)
        \/ relayed_server(r)

Spec == Init /\ [][Next]_vars

-----------------------------------------------------------------------------
(* Requests served concurrently: the server runs one handler goroutine per *)
(* connection, and the goroutines' steps interleave.  Each connection      *)
(* carries one request.                                                    *)

\* the requests that arrive while another one is being served
Deliveries(secret) ==
    { [path |-> "/", method |-> "POST", delivery |-> "abc", event |-> "package",
       signature |-> Calculated(secret, b), body |-> b] :
          b \in {ContainerBody, MavenBody, BodyOf("package", "package_type", Num),
                 BodyOf("Package", "PACKAGE_TYPE", Str("CONTAINER"))} }
    \cup
    { [path |-> "/", method |-> "POST", delivery |-> "abc", event |-> "package",
       signature |-> <<>>, body |-> ContainerBody],
      [path |-> "/", method |-> "POST", delivery |-> "", event |-> "package",
       signature |-> Calculated(secret, ContainerBody), body |-> ContainerBody],
      [path |-> "/", method |-> "GET", delivery |-> "", event |-> "",
       signature |-> <<>>, body |-> <<>>],
      [path |-> "/health", method |-> "GET", delivery |-> "", event |-> "",
       signature |-> <<>>, body |-> <<>>] }

\* http.ListenAndServe accepts a request on any idle connection, whatever
\* the handlers of the other connections are doing
AcceptConcurrent(r) ==
    /\ pc[r] = "idle"
    /\ served < MaxRequests
    /\ served' = served + 1
    /\ \E req \in Deliveries(webhookSecret) :
            /\ request' = [request EXCEPT ![r] = req]
            /\ pc' = [pc EXCEPT ![r] = Route(req.path)]
    /\ conn' = [conn EXCEPT ![r] = Open]
    /\ ctx' = [ctx EXCEPT ![r] = "active"]
    /\ UNCHANGED <<build, webhookSecret, relayURL, locals, w, steps, relay>>

NextConcurrent ==
    \E r \in Conns :
        \/ AcceptConcurrent(r)
        \/ health(r)
        \/ handler(r)
        \/ handler_server(r)
        \/ handleRequest(r)
        \/ handleRequest_server(r)
        \/ cancel(r)
        \/ clientDo(r)
        \/ relayed(r)
        \/ relayed_server(r)

SpecConcurrent == Init /\ [][NextConcurrent]_vars

\* main's mux and handler run on one request by itself, as a function: the
\* ResponseWriter they leave for request req when readRequest gave `body`
\* and client.Do gave (resp, e)
HandledAlone(req, body, resp, e) ==
    LET d == Unmarshal(body)
        packageType == d.event.Package.PackageType
        rw == AfterStatusCheck(AfterDoError(NewResponse, e), resp.StatusCode)
    IN  IF Route(req.path) = "health"
        THEN Write(WriteHeader(NewResponse, 200), <<"OK">>)
        ELSE IF Route(req.path) = "handler" /\ IsProbe(req.method)
        THEN handleHeadAndGet(NewResponse)
        ELSE IF logRequest(req) # <<>>
        THEN respondError(NewResponse, logRequest(req), 400)
        ELSE IF ~verifySignature(webhookSecret, req.signature, body)
        THEN respondError(NewResponse, <<"Invalid Signature">>, 401)
        ELSE IF UnmarshalFailed(d)
        THEN respondError(NewResponse, <<"Failed to parse JSON: ", d.err>>, 400)
        ELSE IF packageType # "CONTAINER"
        THEN IF Route(req.path) = "handler"
             THEN Filtered(NewResponse, packageType)
             ELSE Filtered_server(NewResponse, packageType)
        ELSE IF Route(req.path) = "handler" THEN Confirm(rw) ELSE Confirm_server(rw)

\* the same run panics: it got as far as building the outbound request and
\* either the relay URL did not parse or client.Do gave no response
PanicsAlone(req, body, resp) ==
    /\ Route(req.path) # "health"
    /\ ~(Route(req.path) = "handler" /\ IsProbe(req.method))
    /\ logRequest(req) = <<>>
    /\ verifySignature(webhookSecret, req.signature, body)
    /\ ~UnmarshalFailed(Unmarshal(body))
    /\ Unmarshal(body).event.Package.PackageType = "CONTAINER"
    /\ (NewRequestWithContext(relayURL, body).nil \/ resp.nil)

-----------------------------------------------------------------------------
(* Vocabulary of the properties.  "The body" of a request is the byte      *)
(* sequence the handler obtained from it (requestBody): after a failed     *)
(* read that is a proper prefix of what the caller sent.                   *)

Did(r, step) == \E i \in 1..Len(steps[r]) : steps[r][i] = step

Count(r, step) == Cardinality({i \in 1..Len(steps[r]) : steps[r][i] = step})

Ended(r) == pc[r] \in {"done", "panic"}

OnRoot(r) == request[r].path = "/"

ProbeMethod(r) == request[r].method \in {"GET", "HEAD"}

HasIdentity(r) == request[r].delivery # "" /\ request[r].event # ""

SignatureValid(r) == request[r].signature = Calculated(webhookSecret, requestBody[r])

ParsesAsJSON(r) == checkValid(requestBody[r]) /\ Unmarshal(requestBody[r]).err = ""

PackageType(r) == Unmarshal(requestBody[r]).event.Package.PackageType

\* an ended event delivery that passed the identity check
Delivery(r) == Ended(r) /\ OnRoot(r) /\ ~ProbeMethod(r) /\ HasIdentity(r)

FilterMessage(r) == <<"Filtered out package_type ", PackageType(r), "! No forward to relay">>

\* every request the relay was handed is a POST whose body decodes to the
\* package type CONTAINER
RelayGotContainersOnly ==
    \A i \in 1..Len(relay) :
        /\ relay[i].method = "POST"
        /\ Unmarshal(relay[i].body).err = ""
        /\ Unmarshal(relay[i].body).event.Package.PackageType = "CONTAINER"

-----------------------------------------------------------------------------
-----------------------------------------------------------------------------
\* an ended event delivery with a valid signature whose JSON body decodes
\* to a package type other than CONTAINER (the absent field decodes to "")
FilteredDelivery(r) ==
    /\ Delivery(r)
    /\ SignatureValid(r)
    /\ ParsesAsJSON(r)
    /\ PackageType(r) # "CONTAINER"

-----------------------------------------------------------------------------
\* an ended event delivery whose signature header is not the HMAC of its body
BadSignatureDelivery(r) == Delivery(r) /\ ~SignatureValid(r)

(* C3: an event delivery with both identity headers whose signature header *)
(* does not match the HMAC of the body (or is absent) is answered 401,     *)
(* whether or not the body is JSON; the body is not parsed and no outbound *)
(* call is made.                                                           *)
C3_BadSignatureUnauthorized ==
    \A r \in Conns :
        BadSignatureDelivery(r) =>
            /\ conn[r].status = 401
            /\ ~Did(r, "Unmarshal")
            /\ used[r].parsed = <<>>
            /\ ~Did(r, "NewRequestWithContext")
            /\ ~Did(r, "client.Do")

\* the header is absent and the body is valid JSON that would be relayed
C3_Witness ==
    \E r \in Conns :
        /\ BadSignatureDelivery(r)
        /\ request[r].signature = <<>>
        /\ ParsesAsJSON(r)
        /\ PackageType(r) = "CONTAINER"

-----------------------------------------------------------------------------
\* an ended request on "/", not GET or HEAD, that lacks an identity header
MissingIdentity(r) == Ended(r) /\ OnRoot(r) /\ ~ProbeMethod(r) /\ ~HasIdentity(r)

(* C4: a request on "/", not GET or HEAD, in which X-GitHub-Delivery or    *)
(* X-GitHub-Event is missing or empty is answered 400 whatever its         *)
(* signature header; its body is never read, no signature is computed and  *)
(* no outbound call is made.                                               *)
C4_MissingIdentityBadRequest ==
    \A r \in Conns :
        MissingIdentity(r) =>
            /\ conn[r].status = 400
            /\ ~Did(r, "readRequest")
            /\ requestBody[r] = <<>>
            /\ ~Did(r, "verifySignature")
            /\ used[r].hashed = <<>>
            /\ ~Did(r, "NewRequestWithContext")
            /\ ~Did(r, "client.Do")

\* one header is there, the other is not, and the signature header is the
\* right one for the body sent
C4_Witness ==
    \E r \in Conns :
        /\ MissingIdentity(r)
        /\ request[r].delivery # ""
        /\ request[r].body = ContainerBody
        /\ request[r].signature = Calculated(webhookSecret, request[r].body)

-----------------------------------------------------------------------------
\* an ended GET or HEAD request on "/"
Probe(r) == Ended(r) /\ OnRoot(r) /\ ProbeMethod(r)

\* 200, and nothing of the pipeline has run
ProbeAnswer(r) ==
    /\ conn[r].status = 200
    /\ steps[r] = <<"handleHeadAndGet">>
    /\ requestBody[r] = <<>>
    /\ used[r] = [hashed |-> <<>>, parsed |-> <<>>]
    /\ newRequest[r].nil

-----------------------------------------------------------------------------
\* an ended event delivery with a valid signature whose JSON body decodes
\* to the package type CONTAINER
ForwardableDelivery(r) ==
    /\ Delivery(r)
    /\ SignatureValid(r)
    /\ ParsesAsJSON(r)
    /\ PackageType(r) = "CONTAINER"

\* client.Do gave a response and no error
Answered(r) == Did(r, "client.Do") /\ ~httpResponse[r].nil /\ err[r] = ""

InSuccessRange(code) == code >= 200 /\ code < 300

(* C6: for an event delivery with both identity headers, a valid signature *)
(* and a JSON body of package type CONTAINER, exactly one outbound POST to *)
(* the relay target is attempted, and the caller receives a success status *)
(* when the relay answered in [200,300) and 502 otherwise.  (Stated for a  *)
(* relay target that is a well-formed URL.)                                *)
C6_OneAttemptStatusMirrored ==
    \A r \in Conns :
        ForwardableDelivery(r) /\ URLParses(relayURL) =>
            /\ Count(r, "client.Do") = 1
            /\ newRequest[r].method = "POST"
            /\ newRequest[r].url = relayURL
            /\ IF Answered(r) /\ InSuccessRange(httpResponse[r].StatusCode)
               THEN conn[r].status = 200
               ELSE conn[r].status = 502

-----------------------------------------------------------------------------
\* an ended invocation whose client.Do gave an error and no response
TransportFailure(r) ==
    Ended(r) /\ Did(r, "client.Do") /\ httpResponse[r].nil /\ err[r] # ""

(* C7: when client.Do returns an error and no response, the handler        *)
(* answers 502 and returns: it takes no step that uses the missing         *)
(* response and does not panic.                                            *)
C7_TransportFailureTerminal ==
    \A r \in Conns :
        TransportFailure(r) =>
            /\ pc[r] = "done"
            /\ conn[r].state = "responded"
            /\ conn[r].status = 502
            /\ ~Did(r, "httpResponse.Body")
            /\ ~Did(r, "nil dereference")

-----------------------------------------------------------------------------
\* an ended invocation whose relay answered outside [200,300)
RelayRefused(r) ==
    Ended(r) /\ Answered(r) /\ ~InSuccessRange(httpResponse[r].StatusCode)

RelayStatusMessage(r) == <<"Error - Relay returned status: ", httpResponse[r].StatusCode>>

(* C8: when the relay answers outside [200,300) the caller gets 502 with a *)
(* message naming the relay's code, and the handler stops there: it writes *)
(* no confirmation body and no 200 status afterwards.                      *)
C8_RelayRefusalTerminal ==
    \A r \in Conns :
        RelayRefused(r) =>
            /\ conn[r].status = 502
            /\ w[r].body = <<RelayStatusMessage(r)>>
            /\ \A i \in 1..Len(w[r].calls) : w[r].calls[i].code # 200
            /\ ~Did(r, "Write")
            /\ ~Did(r, "WriteHeader")

-----------------------------------------------------------------------------
\* x is what a read of y gave: all of it, or the part before the failure
IsPrefix(x, y) == Len(x) <= Len(y) /\ x = SubSeq(y, 1, Len(x))

(* C9: in one invocation the bytes the HMAC is computed over, the bytes    *)
(* parsed as JSON and the bytes sent as the outbound body are the body     *)
(* read from the inbound request, unchanged.                               *)
C9_SameBytesThroughout ==
    \A r \in Conns :
        /\ IsPrefix(requestBody[r], request[r].body)
        /\ Did(r, "verifySignature") => used[r].hashed = requestBody[r]
        /\ Did(r, "Unmarshal") =>
              /\ used[r].parsed = requestBody[r]
              /\ event[r] = Unmarshal(requestBody[r]).event
        /\ Did(r, "NewRequestWithContext") /\ ~newRequest[r].nil =>
              /\ newRequest[r].body = requestBody[r]
              /\ request[r].signature = Calculated(webhookSecret, newRequest[r].body)
        /\ Answered(r) =>
              \E i \in 1..Len(relay) : relay[i].body = requestBody[r]

\* a relayed body that is not in canonical form: it has a field the
\* decoder ignores
C9_Witness ==
    \E r \in Conns :
        /\ Did(r, "client.Do")
        /\ relay # <<>>
        /\ Len(requestBody[r]) > Len(ContainerBody)
        /\ newRequest[r].body = request[r].body

-----------------------------------------------------------------------------
\* an ended invocation whose relay answered in [200,300)
RelayAccepted(r) ==
    Ended(r) /\ Answered(r) /\ InSuccessRange(httpResponse[r].StatusCode)

-----------------------------------------------------------------------------
(* C11: an event delivery with both identity headers and a valid           *)
(* signature whose body json.Unmarshal cannot decode (a syntax error, or a *)
(* value of the wrong type for package or package_type) is answered 400    *)
(* with the "Failed to parse JSON" message, and no outbound request is     *)
(* built or sent for it.                                                   *)
MalformedDelivery(r) == Delivery(r) /\ SignatureValid(r) /\ ~ParsesAsJSON(r)

C11_MalformedJSONBadRequest ==
    \A r \in Conns :
        MalformedDelivery(r) =>
            /\ pc[r] = "done"
            /\ conn[r].status = 400
            /\ conn[r].body = << <<"Failed to parse JSON: ", unmarshalErr[r]>> >>
            /\ unmarshalErr[r] = Unmarshal(requestBody[r]).err
            /\ ~Did(r, "NewRequestWithContext")
            /\ ~Did(r, "client.Do")
            /\ newRequest[r].nil

\* a signed body whose package_type is a number: valid JSON that does not
\* decode into the string field
C11_Witness ==
    \E r \in Conns :
        /\ MalformedDelivery(r)
        /\ checkValid(requestBody[r])
        /\ unmarshalErr[r] = "UnmarshalTypeError"
        /\ conn[r].status = 400

-----------------------------------------------------------------------------
(* C12: the outbound call is made by the handler's own goroutine while it  *)
(* waits in client.Do, and it is bound to the inbound request's context.   *)
(* When that context is cancelled before client.Do has returned, the call  *)
(* returns no downstream response but the context's error; and the relay   *)
(* is handed a request only by the client.Do step of a handler that is     *)
(* still running, never for a connection whose handler has ended.          *)
OutboundInFlight(r) == pc[r] = "client.Do"

C12_CancelStopsOutbound ==
    [][ /\ \A r \in Conns :
             OutboundInFlight(r) /\ ctx[r] = "canceled" /\ ~OutboundInFlight(r)' =>
                 /\ httpResponse'[r].nil
                 /\ err'[r] = "context canceled"
                 /\ pc'[r] \in {"relayed", "relayed_server"}
        /\ relay' # relay =>
             \E r \in Conns :
                 /\ OutboundInFlight(r) /\ ~OutboundInFlight(r)'
                 /\ newRequest[r].ctx = "request.Context()"
                 /\ relay' = Append(relay, newRequest[r])
                 /\ steps'[r] = Append(steps[r], "client.Do") ]_vars

\* the context was cancelled, the request had gone out to the relay, and
\* client.Do came back with the context's error
C12_Witness ==
    \E r \in Conns :
        /\ ctx[r] = "canceled"
        /\ Did(r, "client.Do")
        /\ err[r] = "context canceled"
        /\ httpResponse[r].nil
        /\ relay # <<>> /\ relay[Len(relay)] = newRequest[r]

-----------------------------------------------------------------------------
(* C13: verifySignature accepts the header value h for the body B it was   *)
(* given exactly when h is "sha256=" followed by the hex encoding of the   *)
(* HMAC of B under the configured secret.  The signature made for another  *)
(* body (among them the body as sent, when only a prefix of it was read),  *)
(* the one made with another key, the digest without its tag, the          *)
(* signature one character short and the one with a digit changed are all  *)
(* refused with 401.                                                       *)
TaggedDigest(key, B) == SigPrefix \o EncodeToString(HMACSum(key, Codes(B)))

VerifyAccepted(r) == Did(r, "verifySignature") /\ Did(r, "Unmarshal")

VerifyRefused(r) ==
    /\ Did(r, "verifySignature") /\ ~Did(r, "Unmarshal")
    /\ pc[r] = "done" /\ conn[r].status = 401

C13_VerifyExactlyTheDigest ==
    \A r \in Conns :
        Did(r, "verifySignature") =>
            LET h == request[r].signature
                B == used[r].hashed
            IN  /\ B = requestBody[r]
                /\ VerifyAccepted(r) <=> h = TaggedDigest(webhookSecret, B)
                /\ VerifyRefused(r) <=> h # TaggedDigest(webhookSecret, B)
                /\ \A other \in Bodies \cup {request[r].body} :
                       other # B /\ h = TaggedDigest(webhookSecret, other) => VerifyRefused(r)
                /\ h = TaggedDigest(OtherSecret(webhookSecret), B) => VerifyRefused(r)
                /\ h = EncodeToString(HMACSum(webhookSecret, Codes(B))) => VerifyRefused(r)
                /\ Len(h) # Len(TaggedDigest(webhookSecret, B)) => VerifyRefused(r)
                /\ h = OneDigitOff(TaggedDigest(webhookSecret, B)) => VerifyRefused(r)

\* the hex digest of the body that was read, sent without the "sha256="
\* tag, is refused
C13_Witness ==
    \E r \in Conns :
        /\ VerifyRefused(r)
        /\ used[r].hashed = ContainerBody
        /\ request[r].signature = EncodeToString(HMACSum(webhookSecret, Codes(ContainerBody)))

\* the signature of the body as sent is accepted when all of it was read
\* and refused when the read stopped short
C13_WitnessAccepted ==
    \E r \in Conns :
        /\ VerifyAccepted(r)
        /\ used[r].hashed = request[r].body
        /\ request[r].signature = TaggedDigest(webhookSecret, request[r].body)

C13_WitnessTruncated ==
    \E r \in Conns :
        /\ VerifyRefused(r)
        /\ used[r].hashed # request[r].body
        /\ request[r].signature = TaggedDigest(webhookSecret, request[r].body)

-----------------------------------------------------------------------------
\* an ended GET or HEAD request on "/health"
HealthProbe(r) == Ended(r) /\ request[r].path = "/health" /\ ProbeMethod(r)

\* the func literal of "/health" alone ran: it wrote status 200 once and
\* the body "OK", read no body, checked no header or signature and built no
\* outbound request
HealthAnswer(r) ==
    /\ pc[r] = "done"
    /\ steps[r] = <<"health">>
    /\ w[r].calls = <<[op |-> "WriteHeader", code |-> 200, superfluous |-> FALSE]>>
    /\ w[r].body = << <<"OK">> >>
    /\ conn[r].state = "responded"
    /\ conn[r].status = 200
    /\ requestBody[r] = <<>>
    /\ used[r] = [hashed |-> <<>>, parsed |-> <<>>]
    /\ newRequest[r].nil

(* C15 (as amended): every GET or HEAD request on "/health" is served by   *)
(* the func literal of "/health" alone, in both files, whatever its        *)
(* headers and body: status 200 and the body "OK" are written, nothing is  *)
(* checked, no body is read and no outbound call is made.  The caller of a *)
(* GET receives 200 with the body "OK"; the caller of a HEAD receives 200  *)
(* and no body, since the server sends no body in answer to HEAD.          *)
C15_HealthAnswered ==
    \A r \in Conns :
        HealthProbe(r) =>
            /\ HealthAnswer(r)
            /\ conn[r].body = IF request[r].method = "HEAD" THEN <<>> ELSE << <<"OK">> >>

\* C15 as stated: the answer to GET and to HEAD carries the body "OK"
C15_Original ==
    \A r \in Conns :
        HealthProbe(r) => HealthAnswer(r) /\ conn[r].body = << <<"OK">> >>

\* a GET on "/health" with no identity header, no signature and a body
\* that is not JSON
C15_Witness ==
    \E r \in Conns :
        /\ HealthProbe(r)
        /\ request[r].method = "GET"
        /\ request[r].delivery = ""
        /\ request[r].event = ""
        /\ request[r].signature = <<>>
        /\ ~checkValid(request[r].body)
        /\ conn[r].body = << <<"OK">> >>

-----------------------------------------------------------------------------
\* the status writes the handler of connection r asked for after the
\* status had been committed
SecondStatusWrites(r) == {i \in 1..Len(w[r].calls) : w[r].calls[i].superfluous}

(* C16: on every path through the handler the status is written once: no   *)
(* WriteHeader or http.Error comes after the status was committed by an    *)
(* earlier WriteHeader, http.Error or Write, and a handler that returns    *)
(* has committed the status by exactly one call.                           *)
C16_StatusWrittenOnce ==
    \A r \in Conns :
        OnRoot(r) =>
            /\ SecondStatusWrites(r) = {}
            /\ pc[r] = "done" => Len(w[r].calls) = 1

-----------------------------------------------------------------------------
\* an ended invocation whose client.Do yielded a downstream response
GotDownstreamResponse(r) == Ended(r) /\ Did(r, "client.Do") /\ ~httpResponse[r].nil

(* C18: when client.Do yields a downstream response, its body is closed by *)
(* the time the handler invocation ends, whether the relay answered in     *)
(* [200,300) or not: the deferred Body.Close is the invocation's last step *)
(* and no invocation ends holding an open downstream response.             *)
C18_DownstreamBodyClosed ==
    \A r \in Conns :
        /\ GotDownstreamResponse(r) =>
               /\ httpResponse[r].closed
               /\ pc[r] = "done"
               /\ steps[r][Len(steps[r])] = "httpResponse.Body.Close"
               /\ Count(r, "httpResponse.Body.Close") = 1
        /\ Ended(r) /\ ~httpResponse[r].closed => httpResponse[r].nil

\* the relay answered 404 with no transport error: the handler ended with
\* the body closed
C18_Witness ==
    \E r \in Conns :
        /\ GotDownstreamResponse(r)
        /\ err[r] = ""
        /\ httpResponse[r].StatusCode = 404
        /\ httpResponse[r].closed

\* the same for an answer in [200,300)
C18_WitnessSuccess ==
    \E r \in Conns :
        /\ GotDownstreamResponse(r)
        /\ err[r] = ""
        /\ httpResponse[r].StatusCode = 204
        /\ httpResponse[r].closed

-----------------------------------------------------------------------------
(* C19: every invocation of the handler that ends has ended by returning,  *)
(* with a response delivered to the caller; none ends in a panic or        *)
(* without a response.  (The finite-run part of the claim: what an         *)
(* invocation has done once client.Do has returned or was never called;   *)
(* stated for a relay target that is a well-formed URL.)                   *)
C19_EndsNormallyWithResponse ==
    \A r \in Conns :
        Ended(r) /\ URLParses(relayURL) =>
            /\ pc[r] = "done"
            /\ ~Did(r, "nil dereference")
            /\ conn[r].state = "responded"
            /\ conn[r].status # 0

-----------------------------------------------------------------------------
\* everything that belongs to the invocation on connection q
Invocation(q) ==
    <<pc[q], request[q], ctx[q], requestBody[q], event[q], unmarshalErr[q],
      newRequest[q], httpResponse[q], err[q], used[q], w[q], steps[q], conn[q]>>

\* what the caller of an ended invocation received is what the handler,
\* run on that request by itself, answers
AnsweredAsAlone(r) ==
    /\ pc[r] = "panic" <=> PanicsAlone(request[r], requestBody[r], httpResponse[r])
    /\ conn[r] = IF PanicsAlone(request[r], requestBody[r], httpResponse[r])
                 THEN Aborted
                 ELSE Responded(HandledAlone(request[r], requestBody[r],
                                             httpResponse[r], err[r]),
                                request[r].method)
    /\ pc[r] = "done" =>
           w[r] = HandledAlone(request[r], requestBody[r], httpResponse[r], err[r])

(* C17: with the handlers of two connections interleaved in any order, no  *)
(* step writes webhookSecret or relayURL, every step changes the request,  *)
(* body, parsed event, outbound request, downstream response and response  *)
(* writer of one connection at most, and the answer each caller receives   *)
(* is the one the handler gives to that request when run by itself (for    *)
(* the bytes it read and the outcome of its own client.Do).                *)
C17_InvocationsIsolated ==
    /\ [](\A r \in Conns : Ended(r) => AnsweredAsAlone(r))
    /\ [][ /\ webhookSecret' = webhookSecret
           /\ relayURL' = relayURL
           /\ \E r \in Conns :
                 \A q \in Conns \ {r} : Invocation(q)' = Invocation(q) ]_vars

\* two different deliveries are being handled at once: the client.Do of
\* connection 2 has returned while that of connection 1 is in flight
C17_Witness ==
    /\ pc[1] = "client.Do"
    /\ pc[2] \in {"relayed", "relayed_server"}
    /\ requestBody[1] = ContainerBody
    /\ requestBody[2] = BodyOf("Package", "PACKAGE_TYPE", Str("CONTAINER"))
    /\ ~httpResponse[2].nil
    /\ relay = <<newRequest[2]>>

====
